---- MODULE Spec2Model ----
(***************************************************************************)
(* BedrockSafetyAdapter (providers/adapters/safety/bedrock/bedrock.py).    *)
(*                                                                         *)
(* The adapter holds a config and, once initialize() has succeeded, a      *)
(* boto client.  run_shield validates params, converts the messages to     *)
(* Bedrock content blocks, calls apply_guardrail on the client and turns   *)
(* the response into a SafetyViolation or None.  Everything inside         *)
(* run_shield runs under one try/except Exception.                         *)
(*                                                                         *)
(* Python values are encoded as follows:                                   *)
(*   dict            a function whose DOMAIN is the set of its keys        *)
(*   list            a sequence                                            *)
(*   None / objects  a record with a "kind" field                          *)
(*   exception       a string naming the exception (NoError when none)     *)
(***************************************************************************)
EXTENDS Integers, Sequences, FiniteSets, TLC

(***************************************************************************)
(* Bounds of the model.                                                    *)
(***************************************************************************)
MaxMsgs == 2          \* longest messages list passed to run_shield
MaxOutputs == 2       \* longest response["outputs"] list
MaxAssessments == 2   \* longest response["assessments"] list
MaxInit == 2          \* boto3.Session constructions per run
NumInv == 2           \* run_shield invocations that may overlap

(***************************************************************************)
(* Exceptions.                                                             *)
(***************************************************************************)
NoError == "none"
MissingProfile == "RuntimeError: Missing boto_client aws_profile"
ErrorInitializing == "RuntimeError: Error initializing BedrockSafetyAdapter"
MissingGuardrailID == "RuntimeError: Missing GuardrailID in request"
MissingGuardrailVersion == "RuntimeError: Missing guardrailVersion in request"
TypeError == "TypeError"
KeyError == "KeyError"
AttributeError == "AttributeError: boto_client"
ClientError == "botocore.exceptions.ClientError"

\* What the remote apply_guardrail call may raise.
RemoteErrors == {ClientError}

\* The exceptions above are all subclasses of Exception.
ExceptionSubclasses ==
    {MissingProfile, ErrorInitializing, MissingGuardrailID,
     MissingGuardrailVersion, TypeError, KeyError, AttributeError, ClientError}

\* A handler that names only RuntimeError.
CaughtRuntimeErrorOnly(err) == err \in {MissingGuardrailID, MissingGuardrailVersion}

\* "except Exception:" at the end of run_shield.
Caught(err) == err \in ExceptionSubclasses

(***************************************************************************)
(* Config and adapter attributes.                                          *)
(***************************************************************************)
NoneValue == [kind |-> "None"]
Str(s) == [kind |-> "str", s |-> s]

\* config.aws_profile as given to the constructor.
Profiles == {NoneValue, Str(""), Str("default")}

\* Truthiness test that only looks for None.
IsNoneOnly(v) == v.kind = "None"

\* "not v" for an optional string.
Falsy(v) == v.kind = "None" \/ v.s = ""

\* self.boto_client before any assignment (the attribute does not exist).
NoClient == 0

\* self.boto_client_profile before any assignment.
Unset == [kind |-> "unset"]

(***************************************************************************)
(* Inputs of run_shield.                                                   *)
(***************************************************************************)
\* message.content: text, or a media object json.dumps cannot serialise.
Media == [kind |-> "media"]
Message(r, c) == [role |-> r, content |-> c]

MessagePool ==
    {Message("user", Str("a")), Message("assistant", Str("b")),
     Message("assistant", Str("a")), Message("user", Media)}

SeqsUpTo(S, n) == UNION {[1..k -> S] : k \in 0..n}

MessageLists == SeqsUpTo(MessagePool, MaxMsgs)

ParamKeys == {"guardrailIdentifier", "guardrailVersion"}
ParamValues == {"", "gr-1"}
Dict(d) == [kind |-> "dict", d |-> d]

\* params: None (the default of the signature) or a dict over some of the keys.
ParamDicts == UNION {[K -> ParamValues] : K \in SUBSET ParamKeys}
ParamsSet == {NoneValue} \cup {Dict(d) : d \in ParamDicts}

(***************************************************************************)
(* Responses of apply_guardrail.                                           *)
(***************************************************************************)
Intervened == "GUARDRAIL_INTERVENED"
Actions == {Intervened, "NONE"}

EmptyDict == [k \in {} |-> ""]

\* Entries of response["outputs"]: with a text, or without the key.
OutputPool == {[text |-> "a"], [text |-> "b"], EmptyDict}

\* Entries of response["assessments"]: a mapping, a list of key/value pairs
\* (dict() accepts both), or an object dict() rejects.
Pairs(ps) == [kind |-> "pairs", ps |-> ps]
AssessmentPool ==
    {Dict([k |-> "1", severity |-> "LOW"]),
     Pairs(<< <<"k", "1">>, <<"k", "2">> >>),
     [kind |-> "int"]}

OutputLists == SeqsUpTo(OutputPool, MaxOutputs)
AssessmentLists == SeqsUpTo(AssessmentPool, MaxAssessments)

ResponseKeys == {"action", "outputs", "assessments"}
FullResponses ==
    [action : Actions, outputs : OutputLists, assessments : AssessmentLists]

\* Every response dict: each of the three keys present or missing.
Responses ==
    {[k \in K |-> full[k]] : full \in FullResponses, K \in SUBSET ResponseKeys}

(***************************************************************************)
(* run_shield, lines 63-79: validation and conversion.                     *)
(***************************************************************************)
HasKey(d, k) == k \in DOMAIN d

\* Validation that also rejects empty values.
ValidateNonEmpty(params) ==
    IF params.kind = "None" THEN TypeError
    ELSE IF ~HasKey(params.d, "guardrailIdentifier")
              \/ params.d["guardrailIdentifier"] = "" THEN MissingGuardrailID
    ELSE IF ~HasKey(params.d, "guardrailVersion")
              \/ params.d["guardrailVersion"] = "" THEN MissingGuardrailVersion
    ELSE NoError

\* Validation that forgets the version.
ValidateIdentifierOnly(params) ==
    IF params.kind = "None" THEN TypeError
    ELSE IF ~HasKey(params.d, "guardrailIdentifier") THEN MissingGuardrailID
    ELSE NoError

\* The two "not in params" tests; "in" on None raises TypeError.
Validate(params) ==
    IF params.kind = "None" THEN TypeError
    ELSE IF ~HasKey(params.d, "guardrailIdentifier") THEN MissingGuardrailID
    ELSE IF ~HasKey(params.d, "guardrailVersion") THEN MissingGuardrailVersion
    ELSE NoError

ContentBlock(message) == [text |-> [text |-> message.content]]

RECURSIVE AppendBlocks(_, _)
AppendBlocks(content_messages, rest) ==
    IF rest = << >> THEN content_messages
    ELSE AppendBlocks(Append(content_messages, ContentBlock(Head(rest))), Tail(rest))

RECURSIVE PrependBlocks(_, _)
PrependBlocks(content_messages, rest) ==
    IF rest = << >> THEN content_messages
    ELSE PrependBlocks(<<ContentBlock(Head(rest))>> \o content_messages, Tail(rest))

\* A conversion that inserts each block at the front.
ContentMessagesReversed(messages) == PrependBlocks(<< >>, messages)

\* The for loop over messages: one block per message, appended in order.
ContentMessages(messages) == AppendBlocks(<< >>, messages)

\* json.dumps(content_messages) inside the debug f-string: raises TypeError on
\* a content that is not JSON serialisable.
JsonDumps(content_messages) ==
    IF \E n \in DOMAIN content_messages :
           content_messages[n]["text"]["text"].kind # "str"
    THEN TypeError
    ELSE NoError

(***************************************************************************)
(* run_shield, lines 88-101: reading the response.                         *)
(***************************************************************************)
Ok(v) == [err |-> NoError, val |-> v]
Fail(e) == [err |-> e, val |-> NoneValue]

\* dict(pairs): a later pair with the same key overrides an earlier one.
PairsToDict(ps) ==
    [k \in {ps[n][1] : n \in DOMAIN ps} |->
        LET last == CHOOSE n \in DOMAIN ps :
                        /\ ps[n][1] = k
                        /\ \A m \in DOMAIN ps : ps[m][1] = k => m <= n
        IN  ps[last][2]]

\* dict(assessment)
DictOf(assessment) ==
    IF assessment.kind = "dict" THEN Ok(assessment.d)
    ELSE IF assessment.kind = "pairs" THEN Ok(PairsToDict(assessment.ps))
    ELSE Fail(TypeError)

\* A loop over outputs that stops after the first entry.
OutputsLoopFirst(user_message, outputs) ==
    IF outputs = << >> THEN Ok(user_message)
    ELSE IF ~HasKey(Head(outputs), "text") THEN Fail(KeyError)
    ELSE Ok(Head(outputs)["text"])

\* for output in response["outputs"]: user_message = output["text"]
RECURSIVE OutputsLoop(_, _)
OutputsLoop(user_message, outputs) ==
    IF outputs = << >> THEN Ok(user_message)
    ELSE IF ~HasKey(Head(outputs), "text") THEN Fail(KeyError)
    ELSE OutputsLoop(Head(outputs)["text"], Tail(outputs))

\* for assessment in response["assessments"]: metadata = dict(assessment)
RECURSIVE AssessmentsLoop(_, _)
AssessmentsLoop(metadata, assessments) ==
    IF assessments = << >> THEN Ok(metadata)
    ELSE LET d == DictOf(Head(assessments))
         IN  IF d.err # NoError THEN Fail(d.err)
             ELSE AssessmentsLoop(d.val, Tail(assessments))

ERROR == "error"

\* A violation whose level follows the severity the response reports.
SafetyViolationBySeverity(user_message, violation_level, metadata) ==
    [kind |-> "SafetyViolation", user_message |-> user_message,
     violation_level |->
        IF HasKey(metadata, "severity") THEN metadata["severity"]
        ELSE violation_level,
     metadata |-> metadata]

SafetyViolation(user_message, violation_level, metadata) ==
    [kind |-> "SafetyViolation", user_message |-> user_message,
     violation_level |-> violation_level, metadata |-> metadata]

\* The body of the "if" at line 88 once the action is GUARDRAIL_INTERVENED.
OnIntervened(response) ==
    IF ~HasKey(response, "outputs") THEN Fail(KeyError)
    ELSE LET out == OutputsLoop("", response["outputs"])
         IN  IF out.err # NoError THEN Fail(out.err)
             ELSE IF ~HasKey(response, "assessments") THEN Fail(KeyError)
             ELSE LET asm == AssessmentsLoop(EmptyDict, response["assessments"])
                  IN  IF asm.err # NoError THEN Fail(asm.err)
                      ELSE Ok(SafetyViolation(out.val, ERROR, asm.val))

\* A reading that treats every response carrying outputs as an intervention.
InterpretAnyAction(response) ==
    IF ~HasKey(response, "action") THEN Fail(KeyError)
    ELSE IF HasKey(response, "outputs") THEN OnIntervened(response)
    ELSE Ok(NoneValue)

\* Lines 88-101, and the fall through to "return None" at line 109.
Interpret(response) ==
    IF ~HasKey(response, "action") THEN Fail(KeyError)
    ELSE IF response["action"] = Intervened THEN OnIntervened(response)
    ELSE Ok(NoneValue)

(***************************************************************************)
(* State.                                                                  *)
(***************************************************************************)
Invs == 1..NumInv

VARIABLES
    aws_profile,          \* self.config.aws_profile
    boto_client_profile,  \* self.boto_client_profile
    boto_client,          \* self.boto_client: NoClient, or the session that made it
    sessions,             \* outcome of each boto3.Session(...).client(...) so far
    initialize_raised,    \* what the latest initialize() raised
    pc,                   \* per invocation: "idle", "calling", "returned", "raised"
    messages,             \* per invocation: the messages argument
    params,               \* per invocation: the params argument
    calls,                \* per invocation: the apply_guardrail calls it issued
    responses,            \* per invocation: the responses it received
    result,               \* per invocation: the value returned
    logged,               \* per invocation: the exception passed to logger.error
    raised                \* per invocation: the exception that left run_shield

adapter == <<aws_profile, boto_client_profile, boto_client>>
vars == <<aws_profile, boto_client_profile, boto_client, sessions, initialize_raised,
          pc, messages, params, calls, responses, result, logged, raised>>

Pending == [kind |-> "pending"]

\* __init__ stores the config and nothing else.
Init ==
    /\ aws_profile \in Profiles
    /\ boto_client_profile = Unset
    /\ boto_client = NoClient
    /\ sessions = << >>
    /\ initialize_raised = NoError
    /\ pc = [i \in Invs |-> "idle"]
    /\ messages = [i \in Invs |-> << >>]
    /\ params = [i \in Invs |-> NoneValue]
    /\ calls = [i \in Invs |-> << >>]
    /\ responses = [i \in Invs |-> << >>]
    /\ result = [i \in Invs |-> Pending]
    /\ logged = [i \in Invs |-> NoError]
    /\ raised = [i \in Invs |-> NoError]

invocations == <<pc, messages, params, calls, responses, result, logged, raised>>

(***************************************************************************)
(* initialize and shutdown.                                                *)
(***************************************************************************)
\* An initialize that binds the client although the session failed.
InitializeBindsOnError ==
    /\ UNCHANGED <<aws_profile, invocations>>
    /\ IF Falsy(aws_profile)
       THEN /\ initialize_raised' = MissingProfile
            /\ UNCHANGED <<boto_client_profile, boto_client, sessions>>
       ELSE /\ Len(sessions) < MaxInit
            /\ boto_client_profile' = aws_profile
            /\ boto_client' = Len(sessions) + 1
            /\ \E created \in BOOLEAN :
                 IF created
                 THEN /\ sessions' = Append(sessions, "client")
                      /\ initialize_raised' = NoError
                 ELSE /\ sessions' = Append(sessions, "error")
                      /\ initialize_raised' = ErrorInitializing

\* initialize(): the profile test, then the try block around the session.
Initialize ==
    /\ UNCHANGED <<aws_profile, invocations>>
    /\ IF Falsy(aws_profile)
       THEN /\ initialize_raised' = MissingProfile
            /\ UNCHANGED <<boto_client_profile, boto_client, sessions>>
       ELSE /\ Len(sessions) < MaxInit
            /\ boto_client_profile' = aws_profile
            /\ \E created \in BOOLEAN :
                 IF created
                 THEN /\ sessions' = Append(sessions, "client")
                      /\ boto_client' = Len(sessions) + 1
                      /\ initialize_raised' = NoError
                 ELSE /\ sessions' = Append(sessions, "error")
                      /\ boto_client' = boto_client
                      /\ initialize_raised' = ErrorInitializing

\* shutdown(): pass
Shutdown == UNCHANGED vars

(***************************************************************************)
(* run_shield.                                                             *)
(***************************************************************************)
\* params.get(k): the value, or None when the key is missing.
Get(d, k) == IF HasKey(d, k) THEN Str(d[k]) ELSE NoneValue

\* The keyword arguments of the apply_guardrail call, and the client called.
ApplyGuardrailCall(client, p, content_messages) ==
    [client |-> client,
     guardrailIdentifier |-> Get(p.d, "guardrailIdentifier"),
     guardrailVersion |-> Get(p.d, "guardrailVersion"),
     source |-> "OUTPUT",
     content |-> content_messages]

\* An ending that keeps the returned value in one place shared by all
\* invocations.
LeaveShared(i, outcome) ==
    IF outcome.err = NoError
    THEN /\ pc' = [pc EXCEPT ![i] = "returned"]
         /\ result' = [j \in Invs |-> outcome.val]
         /\ UNCHANGED <<logged, raised>>
    ELSE /\ pc' = [pc EXCEPT ![i] = "returned"]
         /\ result' = [j \in Invs |-> NoneValue]
         /\ logged' = [logged EXCEPT ![i] = outcome.err]
         /\ UNCHANGED raised

\* How an invocation ends: a return inside the try block, the except block
\* followed by "return None", or an exception the except clause lets through.
Leave(i, outcome) ==
    IF outcome.err = NoError
    THEN /\ pc' = [pc EXCEPT ![i] = "returned"]
         /\ result' = [result EXCEPT ![i] = outcome.val]
         /\ UNCHANGED <<logged, raised>>
    ELSE IF Caught(outcome.err)
    THEN /\ pc' = [pc EXCEPT ![i] = "returned"]
         /\ result' = [result EXCEPT ![i] = NoneValue]
         /\ logged' = [logged EXCEPT ![i] = outcome.err]
         /\ UNCHANGED raised
    ELSE /\ pc' = [pc EXCEPT ![i] = "raised"]
         /\ raised' = [raised EXCEPT ![i] = outcome.err]
         /\ UNCHANGED <<result, logged>>

\* run_shield from its entry to the apply_guardrail call (lines 61-86).
RunShieldCall(i, m, p) ==
    /\ pc[i] = "idle"
    /\ messages' = [messages EXCEPT ![i] = m]
    /\ params' = [params EXCEPT ![i] = p]
    /\ UNCHANGED <<aws_profile, boto_client_profile, boto_client, sessions,
                   initialize_raised, responses>>
    /\ LET content_messages == ContentMessages(m)
           err == IF Validate(p) # NoError THEN Validate(p)
                  ELSE IF JsonDumps(content_messages) # NoError
                       THEN JsonDumps(content_messages)
                  ELSE IF boto_client = NoClient THEN AttributeError
                  ELSE NoError
       IN  IF err = NoError
           THEN /\ calls' = [calls EXCEPT ![i] =
                       Append(@, ApplyGuardrailCall(boto_client, p, content_messages))]
                /\ pc' = [pc EXCEPT ![i] = "calling"]
                /\ UNCHANGED <<result, logged, raised>>
           ELSE /\ Leave(i, Fail(err))
                /\ UNCHANGED calls

\* apply_guardrail returns r; run_shield reads it and returns (lines 87-109).
ApplyGuardrailReturns(i, r) ==
    /\ pc[i] = "calling"
    /\ responses' = [responses EXCEPT ![i] = Append(@, r)]
    /\ Leave(i, Interpret(r))
    /\ UNCHANGED <<aws_profile, boto_client_profile, boto_client, sessions,
                   initialize_raised, messages, params, calls>>

\* apply_guardrail raises e; run_shield handles it (lines 103-109).
ApplyGuardrailRaises(i, e) ==
    /\ pc[i] = "calling"
    /\ Leave(i, Fail(e))
    /\ UNCHANGED <<aws_profile, boto_client_profile, boto_client, sessions,
                   initialize_raised, messages, params, calls, responses>>

(***************************************************************************)
(* Specifications.                                                         *)
(***************************************************************************)
ValidParams == Dict([guardrailIdentifier |-> "gr-1", guardrailVersion |-> "gr-1"])

SampleParams ==
    {ValidParams, NoneValue,
     Dict([guardrailIdentifier |-> "gr-1"]), Dict([guardrailVersion |-> "gr-1"])}

SampleMessages ==
    {<<Message("user", Str("a"))>>,
     <<Message("user", Str("b")), Message("user", Media)>>}

ConcurrentMessages ==
    SampleMessages \cup {<<Message("user", Str("b")), Message("assistant", Str("a"))>>}

SampleResponses ==
    {EmptyDict,
     [action |-> "NONE"],
     [action |-> Intervened, outputs |-> <<[text |-> "a"]>>,
      assessments |-> <<Dict([k |-> "1", severity |-> "LOW"])>>]}

\* One invocation, every messages list and every params value.
Next ==
    \/ Initialize
    \/ Shutdown
    \/ \E m \in MessageLists, p \in ParamsSet : RunShieldCall(1, m, p)
    \/ \E r \in SampleResponses : ApplyGuardrailReturns(1, r)
    \/ \E e \in RemoteErrors : ApplyGuardrailRaises(1, e)

Spec == Init /\ [][Next]_vars

\* One invocation, every response.
NextResponse ==
    \/ Initialize
    \/ Shutdown
    \/ \E m \in SampleMessages, p \in SampleParams : RunShieldCall(1, m, p)
    \/ \E r \in Responses : ApplyGuardrailReturns(1, r)
    \/ \E e \in RemoteErrors : ApplyGuardrailRaises(1, e)

SpecResponse == Init /\ [][NextResponse]_vars

\* NumInv invocations whose steps interleave with each other and with
\* initialize and shutdown.
NextConcurrent ==
    \/ Initialize
    \/ Shutdown
    \/ \E i \in Invs, m \in ConcurrentMessages, p \in {ValidParams, NoneValue} :
          RunShieldCall(i, m, p)
    \/ \E i \in Invs, r \in SampleResponses : ApplyGuardrailReturns(i, r)
    \/ \E i \in Invs, e \in RemoteErrors : ApplyGuardrailRaises(i, e)

SpecConcurrent == Init /\ [][NextConcurrent]_vars

(***************************************************************************)
(* Properties.                                                             *)
(***************************************************************************)
Started(i) == pc[i] # "idle"
IsDict(p) == p.kind = "dict"
BothKeys(p) == IsDict(p) /\ ParamKeys \subseteq DOMAIN p.d
LacksKey(p) == IsDict(p) /\ ~(ParamKeys \subseteq DOMAIN p.d)
AbsentOrEmpty(p, k) == IsDict(p) /\ (k \notin DOMAIN p.d \/ p.d[k] = "")
AllText(m) == \A n \in DOMAIN m : m[n].content.kind = "str"
MissingParameter == {MissingGuardrailID, MissingGuardrailVersion}
IsViolation(v) == v.kind = "SafetyViolation"
ActionIs(r, a) == "action" \in DOMAIN r /\ r["action"] = a

\* A response run_shield cannot read: no action, or an intervention without
\* outputs, without assessments, with an output that has no text, or with an
\* assessment that is no mapping.
Malformed(r) ==
    \/ "action" \notin DOMAIN r
    \/ /\ r["action"] = Intervened
       /\ \/ "outputs" \notin DOMAIN r
          \/ "assessments" \notin DOMAIN r
          \/ \E n \in DOMAIN r["outputs"] : "text" \notin DOMAIN r["outputs"][n]
          \/ \E n \in DOMAIN r["assessments"] : r["assessments"][n].kind = "int"

\* C1: run_shield never ends in a raised error; when validation fails, the
\* remote call raises or the response is malformed, it logs the exception
\* and returns None.
C1_NeverRaises ==
    \A i \in Invs :
        /\ pc[i] # "raised"
        /\ raised[i] = NoError
        /\ ( /\ pc[i] = "returned"
             /\ \/ ~BothKeys(params[i])
                \/ calls[i] # << >> /\ responses[i] = << >>
                \/ responses[i] # << >> /\ Malformed(responses[i][1]) )
           => (result[i] = NoneValue /\ logged[i] # NoError)

C1_Witness ==
    /\ pc[1] = "returned"
    /\ responses[1] # << >>
    /\ ActionIs(responses[1][1], Intervened)
    /\ "outputs" \notin DOMAIN responses[1][1]
    /\ result[1] = NoneValue
    /\ logged[1] = KeyError

\* C2: when params lacks guardrailIdentifier or guardrailVersion, run_shield
\* returns None and issues no apply_guardrail call.
C2_MissingKeyReturnsNone ==
    \A i \in Invs :
        (Started(i) /\ ~BothKeys(params[i]))
            => (pc[i] = "returned" /\ result[i] = NoneValue /\ calls[i] = << >>)

C2_Witness ==
    /\ boto_client # NoClient
    /\ pc[1] = "returned"
    /\ IsDict(params[1])
    /\ DOMAIN params[1].d = {"guardrailIdentifier"}
    /\ AllText(messages[1]) /\ messages[1] # << >>
    /\ result[1] = NoneValue
    /\ calls[1] = << >>

\* C3 as stated: whenever the guardrailIdentifier or the guardrailVersion of
\* the params mapping is absent or empty, validation fails with a
\* MissingParameter error and no call is issued.
C3_Original ==
    \A i \in Invs :
        ( /\ Started(i)
          /\ \/ AbsentOrEmpty(params[i], "guardrailIdentifier")
             \/ AbsentOrEmpty(params[i], "guardrailVersion") )
            => (logged[i] \in MissingParameter /\ calls[i] = << >>)

\* C3 as amended: when the params mapping lacks one of the two keys,
\* validation fails with a MissingParameter error and no call is issued; when
\* both keys are present validation passes whatever their values, empty
\* included.
C3_KeyPresenceOnly ==
    \A i \in Invs :
        Started(i) =>
            /\ LacksKey(params[i]) =>
                  /\ pc[i] = "returned"
                  /\ logged[i] \in MissingParameter
                  /\ calls[i] = << >>
            /\ BothKeys(params[i]) => logged[i] \notin MissingParameter

C3_Witness ==
    /\ Started(1)
    /\ BothKeys(params[1])
    /\ params[1].d["guardrailIdentifier"] = ""
    /\ Len(calls[1]) = 1
    /\ calls[1][1].guardrailIdentifier = Str("")

BlocksMatch(content, m) ==
    /\ Len(content) = Len(m)
    /\ \A n \in DOMAIN m : content[n] = [text |-> [text |-> m[n].content]]

C5_OnlyIntervenedViolates ==
    \A i \in Invs :
        /\ ( /\ pc[i] = "returned"
             /\ responses[i] # << >>
             /\ ~ActionIs(responses[i][1], Intervened) )
           => result[i] = NoneValue
        /\ IsViolation(result[i]) =>
              /\ Len(calls[i]) = 1
              /\ Len(responses[i]) = 1
              /\ ActionIs(responses[i][1], Intervened)

C5_Witness ==
    /\ pc[1] = "returned"
    /\ responses[1] # << >>
    /\ ActionIs(responses[1][1], "NONE")
    /\ "outputs" \in DOMAIN responses[1][1]
    /\ "assessments" \in DOMAIN responses[1][1]
    /\ Len(responses[1][1]["outputs"]) = MaxOutputs
    /\ Len(responses[1][1]["assessments"]) = MaxAssessments
    /\ logged[1] = NoError
    /\ result[1] = NoneValue

\* C6: a returned violation carries the text of the final entry of outputs
\* and the final entry of assessments as a mapping; a well-formed intervention
\* always yields such a violation.
C6_LastWins ==
    \A i \in Invs :
        /\ IsViolation(result[i]) =>
              /\ responses[i] # << >>
              /\ {"outputs", "assessments"} \subseteq DOMAIN responses[i][1]
              /\ LET outputs == responses[i][1]["outputs"]
                     assessments == responses[i][1]["assessments"]
                 IN  /\ outputs # << >> =>
                           /\ "text" \in DOMAIN outputs[Len(outputs)]
                           /\ result[i].user_message = outputs[Len(outputs)]["text"]
                     /\ outputs = << >> => result[i].user_message = ""
                     /\ assessments # << >> =>
                           /\ DictOf(assessments[Len(assessments)]).err = NoError
                           /\ result[i].metadata
                                 = DictOf(assessments[Len(assessments)]).val
                     /\ assessments = << >> => result[i].metadata = EmptyDict
        /\ ( /\ pc[i] = "returned"
             /\ responses[i] # << >>
             /\ ActionIs(responses[i][1], Intervened)
             /\ ~Malformed(responses[i][1]) )
           => IsViolation(result[i])

C6_Witness ==
    /\ pc[1] = "returned"
    /\ responses[1] # << >>
    /\ ActionIs(responses[1][1], Intervened)
    /\ "outputs" \in DOMAIN responses[1][1]
    /\ "assessments" \in DOMAIN responses[1][1]
    /\ responses[1][1]["outputs"] = <<[text |-> "a"], [text |-> "b"]>>
    /\ responses[1][1]["assessments"]
          = <<Dict([k |-> "1", severity |-> "LOW"]),
              Pairs(<< <<"k", "1">>, <<"k", "2">> >>)>>
    /\ IsViolation(result[1])
    /\ result[1].user_message = "b"
    /\ result[1].metadata = [k |-> "2"]

\* C7: every violation returned has level ERROR, whatever severity the
\* response reports.
C7_LevelError ==
    \A i \in Invs : IsViolation(result[i]) => result[i].violation_level = ERROR

C7_Witness ==
    /\ IsViolation(result[1])
    /\ "severity" \in DOMAIN result[1].metadata
    /\ result[1].metadata["severity"] = "LOW"
    /\ result[1].violation_level = ERROR

NoProfileConfigured == aws_profile = NoneValue \/ aws_profile = Str("")

\* C8: with no profile configured initialize() raises before any session is
\* created, the adapter never gets a client and no remote call is ever made;
\* when the session cannot be created initialize() raises too and binds no
\* client.
C8_InitializeFails ==
    /\ [](NoProfileConfigured =>
            /\ sessions = << >>
            /\ boto_client = NoClient
            /\ boto_client_profile = Unset
            /\ \A i \in Invs : calls[i] = << >>)
    /\ [][(NoProfileConfigured /\ Initialize)
            => initialize_raised' = MissingProfile]_vars
    /\ [][(Len(sessions') > Len(sessions) /\ sessions'[Len(sessions')] = "error")
            => /\ initialize_raised' = ErrorInitializing
               /\ boto_client' = boto_client]_vars

C8_Witness ==
    /\ aws_profile = Str("")
    /\ initialize_raised = MissingProfile
    /\ pc[1] = "returned"
    /\ BothKeys(params[1])
    /\ AllText(messages[1])
    /\ calls[1] = << >>

\* C9: overlapping invocations do not affect one another: two invocations
\* with the same messages, params and response return the same value; a step
\* that is not a step of invocation i leaves everything invocation i holds
\* unchanged; and no step of run_shield nor shutdown changes the adapter.
C9_Independent ==
    /\ [](\A i, j \in Invs :
            ( /\ pc[i] = "returned" /\ pc[j] = "returned"
              /\ messages[i] = messages[j]
              /\ params[i] = params[j]
              /\ responses[i] = responses[j] )
                => result[i] = result[j])
    /\ [][\A i \in Invs :
            pc'[i] = pc[i] =>
                /\ messages'[i] = messages[i]
                /\ params'[i] = params[i]
                /\ calls'[i] = calls[i]
                /\ responses'[i] = responses[i]
                /\ result'[i] = result[i]
                /\ logged'[i] = logged[i]
                /\ raised'[i] = raised[i]]_vars
    /\ [][(pc' # pc \/ Shutdown)
            => UNCHANGED <<adapter, sessions, initialize_raised>>]_vars

C9_Witness ==
    /\ pc[1] = "returned"
    /\ IsViolation(result[1])
    /\ pc[2] = "calling"
    /\ messages[1] # messages[2]
    /\ calls[1][1].client = calls[2][1].client

NoInitializeSucceeded == \A n \in DOMAIN sessions : sessions[n] # "client"

\* C10: an invocation entered while no initialize() has succeeded issues no
\* call, raises nothing and returns None; with valid arguments what it logs
\* is the missing boto_client attribute.
C10_UninitializedReturnsNone ==
    [][\A i \in Invs :
          (pc[i] = "idle" /\ pc'[i] # "idle" /\ NoInitializeSucceeded)
              => /\ pc'[i] = "returned"
                 /\ result'[i] = NoneValue
                 /\ calls'[i] = << >>
                 /\ raised'[i] = NoError
                 /\ (BothKeys(params'[i]) /\ AllText(messages'[i]))
                        => logged'[i] = AttributeError]_vars

C10_Witness ==
    /\ sessions # << >>
    /\ NoInitializeSucceeded
    /\ pc[1] = "returned"
    /\ BothKeys(params[1])
    /\ AllText(messages[1]) /\ messages[1] # << >>
    /\ logged[1] = AttributeError
    /\ result[1] = NoneValue
    /\ calls[1] = << >>

====
